---- MODULE Spec2Model ----
(***************************************************************************)
(* File-Vault: content-addressed file store with deduplication.            *)
(*                                                                         *)
(* The model follows backend/files: models.py (File, FileReference,        *)
(* StorageStats), services.py (DeduplicationService) and views.py          *)
(* (FileReferenceViewSet.create / destroy / bulk_delete).                  *)
(*                                                                         *)
(* The relational store is modelled as the strongest store the code can    *)
(* run on: every @transaction.atomic body commits as one step or rolls     *)
(* back as a whole, and a transaction whose in-transaction read has gone   *)
(* stale is refused by the store (unique violation, row gone, lock or      *)
(* serialization error) instead of being applied.  What the views read     *)
(* BEFORE the transaction starts (get_object in destroy, the queryset in   *)
(* bulk_delete) is outside that protection and is modelled as a separate   *)
(* step.  The disk (blobs) is not transactional.                           *)
(*                                                                         *)
(* DeduplicationService is the engine behind the views; its operations are *)
(* entry points of their own.  A create request reaches handle_file_upload *)
(* only after FileUploadSerializer accepted the file; a direct call of     *)
(* handle_file_upload takes any stream.                                    *)
(*                                                                         *)
(* An uploaded stream has a position.  The two digest functions of the     *)
(* repository (DeduplicationService.calculate_file_hash and the            *)
(* module-level calculate_file_hash of models.py) are modelled by what     *)
(* they read and where they leave the stream.                              *)
(***************************************************************************)
EXTENDS Integers, Sequences, FiniteSets, TLC

\* Number of create calls in a behaviour; every call draws fresh UUIDs
\* (File.id, FileReference.id, blob name), numbered 1..MaxUploads.
MaxUploads == 2

\* Longest reference_ids list a bulk_delete request carries in the model.
MaxBulk == 2

\* Number of outside failures (a statement that raises, an os.remove that
\* fails) in a behaviour.
MaxFaults == 1

\* Longest run of trailing zero bytes of the streams handed to the hasher.
MaxFill == 2

\* The request-handling workers that may run concurrently.
Workers == {"w1", "w2"}

\* Byte strings that callers upload: two contents of different sizes, and
\* the empty stream.
Payloads == << <<1>>, <<2, 1>>, <<>> >>

VARIABLES
    files,      \* File table: id -> [file_hash, size, reference_count]
    refs,       \* FileReference table: id -> [file, is_duplicate]
    stats,      \* the StorageStats row (pk = 1)
    disk,       \* blobs present in the upload storage, by File id
    nextId,     \* next fresh UUID
    req,        \* per worker: the request in progress
    resp,       \* per worker: the last response returned
    removed,    \* ids of File rows deleted by a committed transaction
    leaked,     \* blobs whose os.remove raised during a deletion
    faults,     \* outside failures so far
    epoch       \* history of the current episode of requests

db == [files |-> files, refs |-> refs, stats |-> stats]

vars == <<files, refs, stats, disk, nextId, req, resp, removed, leaked, faults, epoch>>

\* no floor: the second value whatever the first
unfloored(a, b) == b

Max(a, b) == IF a >= b THEN a ELSE b

----------------------------------------------------------------------------
(* Hasher *)

\* Base of the positional digest standing for SHA-256: injective on byte
\* strings over 1..Radix-1.
Radix == 3

RECURSIVE hexdigest(_)
hexdigest(bytes) ==
    IF bytes = <<>> THEN 0
    ELSE hexdigest(SubSeq(bytes, 1, Len(bytes) - 1)) * Radix + bytes[Len(bytes)]

\* An uploaded stream: the leading bytes written out, followed by fill
\* further bytes of value 0, and the position of the next read.
UploadedFile(bytes) == [bytes |-> bytes, fill |-> 0, size |-> Len(bytes), pos |-> 0]

\* the stream of file_obj followed by n more bytes of value 0
Padded(file_obj, n) == [file_obj EXCEPT !.fill = @ + n, !.size = @ + n]

\* file_obj.seek(offset)
seek(file_obj, offset) == [file_obj EXCEPT !.pos = offset]

\* What reading file_obj to its end returns: the bytes from its position on.
read(file_obj) ==
    LET n == Len(file_obj.bytes)
        p == file_obj.pos
    IN  IF p <= n
        THEN [bytes |-> SubSeq(file_obj.bytes, p + 1, n), fill |-> file_obj.fill]
        ELSE [bytes |-> <<>>, fill |-> file_obj.size - p]

\* the stream once it has been read to its end
exhausted(file_obj) == seek(file_obj, file_obj.size)

\* file_obj.chunks(): django's File.chunks seeks to 0 and then reads chunk
\* after chunk until nothing is returned; the chunks, joined.
chunks(file_obj) == read(seek(file_obj, 0))

\* hashlib.sha256 updated with data: the digest.  The leading bytes of the
\* streams used here are at most two, so their digest is below Radix * Radix
\* and the digest stays injective on data with a fill.
sha256(data) == hexdigest(data.bytes) + Radix * Radix * data.fill

\* DeduplicationService.calculate_file_hash: the digest it returns and the
\* stream as it leaves it.
hash_stream(file_obj) ==
    LET start == seek(file_obj, 0)
        hash_sha256 == sha256(chunks(start))
    IN  [hexdigest |-> hash_sha256, file_obj |-> seek(exhausted(start), 0)]

calculate_file_hash(file_obj) == hash_stream(file_obj).hexdigest

\* calculate_file_hash of models.py: the digest it returns and the stream as
\* it leaves it.
models_calculate_file_hash(file_obj) ==
    [hexdigest |-> sha256(chunks(file_obj)), file_obj |-> exhausted(file_obj)]

----------------------------------------------------------------------------
(* Content Store: File rows *)

\* "no File instance" (Python None)
None == [id |-> 0, file_hash |-> 0, size |-> 0, reference_count |-> 0]

\* the in-memory File instance loaded from row f
Instance(fs, f) ==
    [id |-> f, file_hash |-> fs[f].file_hash, size |-> fs[f].size,
     reference_count |-> fs[f].reference_count]

\* the digest of the empty content is never found
find_existing_file_nonempty(fs, file_hash) ==
    IF file_hash # 0 /\ \E f \in DOMAIN fs : fs[f].file_hash = file_hash
    THEN Instance(fs, CHOOSE f \in DOMAIN fs : fs[f].file_hash = file_hash)
    ELSE None

find_existing_file(fs, file_hash) ==
    IF \E f \in DOMAIN fs : fs[f].file_hash = file_hash
    THEN Instance(fs, CHOOSE f \in DOMAIN fs : fs[f].file_hash = file_hash)
    ELSE None

\* the count is left as it was read
increment_reference_unsaved(file_obj) == file_obj

\* the count is assigned instead of added to
increment_reference_reset(file_obj) ==
    [file_obj EXCEPT !.reference_count = 1]

increment_reference(file_obj) ==
    [file_obj EXCEPT !.reference_count = @ + 1]

\* the count is left as it was read
decrement_reference_unsaved(file_obj) == file_obj

\* the count drops by two
decrement_reference_twice(file_obj) ==
    [file_obj EXCEPT !.reference_count = Max(0, @ - 2)]

decrement_reference(file_obj) ==
    [file_obj EXCEPT !.reference_count = Max(0, @ - 1)]

\* save(update_fields=['reference_count']) of an in-memory instance
SaveReferenceCount(fs, file_obj) ==
    [fs EXCEPT ![file_obj.id].reference_count = file_obj.reference_count]

\* the row the instance was loaded from is still there, unchanged
RowIs(fs, file_obj) ==
    file_obj.id \in DOMAIN fs /\ Instance(fs, file_obj.id) = file_obj

\* no unique index on file_hash: every INSERT is taken
unique_unenforced(fs, file_hash) == FALSE

\* File.file_hash is unique=True: the INSERT of a row with this file_hash is
\* refused (IntegrityError) when a row has it already
unique_violation(fs, file_hash) ==
    \E f \in DOMAIN fs : fs[f].file_hash = file_hash

Remove(f, key) == [k \in DOMAIN f \ {key} |-> f[k]]

Insert(f, key, row) == [k \in DOMAIN f \cup {key} |-> IF k = key THEN row ELSE f[k]]

\* is_duplicate is not passed and stays at the field's default
FileReference_default(file_obj, is_duplicate) ==
    [file |-> file_obj.id, is_duplicate |-> FALSE]

\* the row of FileReference.objects.create(file=file_obj, ...,
\* is_duplicate=is_duplicate)
FileReference(file_obj, is_duplicate) ==
    [file |-> file_obj.id, is_duplicate |-> is_duplicate]

----------------------------------------------------------------------------
(* Storage Accounting *)

ZeroStats ==
    [total_files_uploaded |-> 0, unique_files_stored |-> 0,
     total_size_uploaded |-> 0, actual_size_stored |-> 0, storage_saved |-> 0]

\* the stored bytes are counted for duplicates too
update_storage_stats_always(st, uploaded_size, stored_size, saved_size) ==
    [st EXCEPT !.total_files_uploaded = @ + 1,
               !.total_size_uploaded = @ + uploaded_size,
               !.storage_saved = @ + saved_size,
               !.unique_files_stored = @ + 1,
               !.actual_size_stored = @ + uploaded_size]

\* every upload is counted twice in total_files_uploaded
update_storage_stats_twice(st, uploaded_size, stored_size, saved_size) ==
    LET s1 == [st EXCEPT !.total_files_uploaded = @ + 2,
                         !.total_size_uploaded = @ + uploaded_size,
                         !.storage_saved = @ + saved_size]
    IN  IF stored_size > 0
        THEN [s1 EXCEPT !.unique_files_stored = @ + 1,
                        !.actual_size_stored = @ + stored_size]
        ELSE s1

update_storage_stats(st, uploaded_size, stored_size, saved_size) ==
    LET s1 == [st EXCEPT !.total_files_uploaded = @ + 1,
                         !.total_size_uploaded = @ + uploaded_size,
                         !.storage_saved = @ + saved_size]
    IN  IF stored_size > 0
        THEN [s1 EXCEPT !.unique_files_stored = @ + 1,
                        !.actual_size_stored = @ + stored_size]
        ELSE s1

\* round(num / den, 2), in hundredths
Round2(num, den) == (200 * num + den) \div (2 * den)

\* StorageStats.calculate_savings_percentage, rounded to two places
calculate_savings_percentage(st) ==
    IF st.total_size_uploaded > 0
    THEN Round2(st.storage_saved * 100, st.total_size_uploaded)
    ELSE 0

\* StorageStatsSerializer.get_deduplication_ratio
get_deduplication_ratio(obj) ==
    IF obj.unique_files_stored > 0
    THEN Round2(obj.total_files_uploaded, obj.unique_files_stored)
    ELSE 0

\* What the stats endpoint returns: StorageStatsSerializer(stats).data, the
\* derived values in hundredths.
StorageStatsSerializer(obj) ==
    [total_files_uploaded |-> obj.total_files_uploaded,
     unique_files_stored |-> obj.unique_files_stored,
     total_size_uploaded |-> obj.total_size_uploaded,
     actual_size_stored |-> obj.actual_size_stored,
     storage_saved |-> obj.storage_saved,
     total_size_uploaded_mb |-> Round2(obj.total_size_uploaded, 1024 * 1024),
     actual_size_stored_mb |-> Round2(obj.actual_size_stored, 1024 * 1024),
     storage_saved_mb |-> Round2(obj.storage_saved, 1024 * 1024),
     savings_percentage |-> calculate_savings_percentage(obj),
     deduplication_ratio |-> get_deduplication_ratio(obj)]

\* DeduplicationService.get_storage_savings_info, the derived values in
\* hundredths.
get_storage_savings_info(st) ==
    [total_files_uploaded |-> st.total_files_uploaded,
     unique_files_stored |-> st.unique_files_stored,
     total_size_uploaded |-> st.total_size_uploaded,
     actual_size_stored |-> st.actual_size_stored,
     storage_saved |-> st.storage_saved,
     savings_percentage |-> calculate_savings_percentage(st),
     deduplication_ratio |->
         Round2(st.total_files_uploaded, Max(st.unique_files_stored, 1))]

----------------------------------------------------------------------------
(* Transactions *)

\* no transaction: the writes made before the exception stay
autocommit(before, run) == run

\* @transaction.atomic: the body's database writes are kept when it returns
\* and undone when it raises.  Writes to the disk are not undone.
atomic(before, run) ==
    IF run.raised THEN [run EXCEPT !.db = before] ELSE run

----------------------------------------------------------------------------
(* Upload *)

\* Places where handle_file_upload can raise.
UploadFaults == {"none", "hash", "blob", "file", "reference", "stats"}

UploadStage(s) ==
    CASE s = "hash" -> 1 [] s = "blob" -> 2 [] s = "file" -> 3
      [] s = "reference" -> 4 [] s = "stats" -> 5 [] s = "none" -> 6

\* The body of handle_file_upload, run against database state d and disk dk.
\* existing is what find_existing_file returned, id the UUID drawn for the
\* new rows, fault the statement that raises for an outside reason.
upload_body(d, dk, uploaded_file, id, existing, fault) ==
    LET file_hash == calculate_file_hash(uploaded_file)
        is_duplicate == existing # None
        storage_saved == IF is_duplicate THEN uploaded_file.size ELSE 0
        \* the store refuses the File write: UPDATE of a row that is gone or
        \* changed, INSERT of a file_hash that is already there (unique=True)
        refused == IF is_duplicate
                   THEN ~RowIs(d.files, existing)
                   ELSE unique_violation(d.files, file_hash)
        raised_at == IF fault = "hash" THEN "hash"
                     ELSE IF fault = "blob" /\ ~is_duplicate THEN "blob"
                     ELSE IF fault = "file" \/ refused THEN "file"
                     ELSE IF fault \in {"reference", "stats"} THEN fault
                     ELSE "none"
        done(s) == UploadStage(raised_at) > UploadStage(s)
        file_obj == IF is_duplicate
                    THEN increment_reference(existing)
                    ELSE [id |-> id, file_hash |-> file_hash,
                          size |-> uploaded_file.size, reference_count |-> 1]
        dk1 == IF ~is_duplicate /\ done("blob") THEN dk \cup {id} ELSE dk
        files1 == IF ~done("file") THEN d.files
                  ELSE IF is_duplicate THEN SaveReferenceCount(d.files, file_obj)
                  ELSE Insert(d.files, id,
                              [file_hash |-> file_hash, size |-> uploaded_file.size,
                               reference_count |-> 1])
        refs1 == IF done("reference")
                 THEN Insert(d.refs, id, FileReference(file_obj, is_duplicate))
                 ELSE d.refs
        stats1 == IF done("stats")
                  THEN update_storage_stats(d.stats, uploaded_file.size,
                           IF is_duplicate THEN 0 ELSE uploaded_file.size,
                           storage_saved)
                  ELSE d.stats
    IN  [db |-> [files |-> files1, refs |-> refs1, stats |-> stats1],
         disk |-> dk1,
         raised |-> raised_at # "none",
         raised_at |-> raised_at,
         conflict |-> raised_at = "file" /\ refused /\ ~is_duplicate,
         file_reference |-> id,
         is_duplicate |-> is_duplicate,
         storage_saved |-> storage_saved]

handle_file_upload(d, dk, uploaded_file, id, existing, fault) ==
    atomic(d, upload_body(d, dk, uploaded_file, id, existing, fault))

----------------------------------------------------------------------------
(* Deletion *)

\* the blob is never unlinked
os_remove_skipped(dk, blob, remove_ok) == dk

\* os.remove(file_obj.file.path) under try/except: the blob goes unless the
\* call raises
os_remove(dk, blob, remove_ok) ==
    IF remove_ok THEN dk \ {blob} ELSE dk

\* no except clause: the OSError of a failing os.remove propagates
os_remove_uncaught(attempted, remove_ok) == attempted /\ ~remove_ok

\* except (ValueError, OSError): pass around os.path.exists / os.remove:
\* whether an exception leaves the block
os_remove_raises(attempted, remove_ok) == FALSE

\* Places where handle_file_deletion can raise for an outside reason.
DeletionFaults == {"none", "reference", "file", "file_delete", "stats"}

DeletionStage(s) ==
    CASE s = "reference" -> 1 [] s = "file" -> 2 [] s = "os_remove" -> 3
      [] s = "file_delete" -> 4 [] s = "stats" -> 5 [] s = "none" -> 6

\* The body of handle_file_deletion, run against database state d and disk
\* dk.  file_reference and file_obj are the in-memory instances the caller
\* holds; remove_ok tells whether os.remove succeeds; fault is the statement
\* that raises for an outside reason.
deletion_body(d, dk, file_reference, file_obj, remove_ok, fault) ==
    LET file_size == file_obj.size
        was_last_reference == file_obj.reference_count <= 1
        after == decrement_reference(file_obj)
        reclaim == after.reference_count = 0
        \* save(update_fields=...) raises when the UPDATE matches no row
        refused == file_obj.id \notin DOMAIN d.files
        \* the blob is there to be unlinked
        attempted == reclaim /\ file_obj.id \in dk
        raised_at == IF fault = "reference" THEN "reference"
                     ELSE IF fault = "file" \/ refused THEN "file"
                     ELSE IF os_remove_raises(attempted, remove_ok) THEN "os_remove"
                     ELSE IF fault = "file_delete" /\ reclaim THEN "file_delete"
                     ELSE IF fault = "stats" THEN "stats"
                     ELSE "none"
        done(s) == DeletionStage(raised_at) > DeletionStage(s)
        \* file_reference.delete()
        refs1 == IF done("reference") /\ file_reference.id \in DOMAIN d.refs
                 THEN Remove(d.refs, file_reference.id) ELSE d.refs
        \* file_obj.decrement_reference()
        files1 == IF done("file") THEN SaveReferenceCount(d.files, after) ELSE d.files
        \* os.path.exists / os.remove, errors swallowed
        unlink == done("file") /\ attempted
        dk1 == IF unlink THEN os_remove(dk, file_obj.id, remove_ok) ELSE dk
        \* file_obj.delete(), cascading to the FileReference rows of the File
        drop == done("file_delete") /\ reclaim
        files2 == IF drop THEN Remove(files1, file_obj.id) ELSE files1
        refs2 == IF drop
                 THEN [r \in {x \in DOMAIN refs1 : refs1[x].file # file_obj.id} |-> refs1[r]]
                 ELSE refs1
        storage_freed == IF reclaim THEN file_size ELSE 0
        st == d.stats
        st1 == [st EXCEPT !.total_files_uploaded = Max(0, @ - 1),
                          !.total_size_uploaded = Max(0, @ - file_size)]
        st2 == IF was_last_reference
               THEN [st1 EXCEPT !.unique_files_stored = Max(0, @ - 1),
                                !.actual_size_stored = Max(0, @ - file_size)]
               ELSE [st1 EXCEPT !.storage_saved = Max(0, @ - file_size)]
        stats1 == IF done("stats") THEN st2 ELSE st
    IN  [db |-> [files |-> files2, refs |-> refs2, stats |-> stats1],
         disk |-> dk1,
         raised |-> raised_at # "none",
         raised_at |-> raised_at,
         dropped |-> drop,
         remove_failed |-> unlink /\ ~remove_ok,
         file_deleted |-> was_last_reference,
         storage_freed |-> storage_freed,
         references_remaining |-> IF ~was_last_reference THEN after.reference_count ELSE 0]

handle_file_deletion(d, dk, file_reference, file_obj, remove_ok, fault) ==
    atomic(d, deletion_body(d, dk, file_reference, file_obj, remove_ok, fault))

----------------------------------------------------------------------------
(* Requests and responses *)

NoRef == [id |-> 0, file |-> 0]

Idle ==
    [op |-> "idle", uploaded_file |-> UploadedFile(<<>>), existing |-> None,
     file_reference |-> NoRef, file_obj |-> None, queue |-> <<>>, results |-> <<>>]

NoResponse ==
    [op |-> "none", status |-> 0, file_reference |-> 0, is_duplicate |-> FALSE,
     storage_saved |-> 0, file_deleted |-> FALSE, storage_freed |-> 0,
     references_remaining |-> 0, results |-> <<>>, raised_at |-> "none",
     conflict |-> FALSE, size |-> 0, file_hash |-> 0]

Ids == 1..MaxUploads

\* create calls that have started and not yet drawn their UUID
Pending == Cardinality({w \in Workers : req[w].op = "create"})

Init ==
    /\ files = <<>>
    /\ refs = <<>>
    /\ stats = ZeroStats
    /\ disk = {}
    /\ nextId = 1
    /\ req = [w \in Workers |-> Idle]
    /\ resp = [w \in Workers |-> NoResponse]
    /\ removed = {}
    /\ leaked = {}
    /\ faults = 0
    /\ epoch = [base |-> [files |-> <<>>, refs |-> <<>>, stats |-> ZeroStats],
                ops |-> <<>>, asked |-> <<>>]

\* the accounting history is not kept
Quiet == UNCHANGED epoch

AllIdle == \A w \in Workers : req[w].op = "idle"

\* the operation that worker w commits in this step, if any
Committed(w) ==
    IF req[w].op = "create" /\ req'[w].op = "idle" /\ resp'[w].status = 201
    THEN <<[kind |-> "upload", bytes |-> req[w].uploaded_file.bytes, id |-> nextId]>>
    ELSE IF req[w].op = "destroy" /\ req'[w].op = "idle" /\ resp'[w].status = 200
    THEN <<[kind |-> "delete", bytes |-> <<>>, id |-> req[w].file_reference.id]>>
    ELSE IF req[w].op = "bulk" /\ req'[w].op = "bulk" /\ Len(req'[w].queue) < Len(req[w].queue)
    THEN <<[kind |-> "delete", bytes |-> <<>>, id |-> Head(req[w].queue).id]>>
    ELSE <<>>

\* The history: the database at the last moment no request was in progress,
\* the operations committed since, in commit order, and the reference_ids of
\* the last bulk request taken up.
Noted ==
    LET start == IF AllIdle THEN [epoch EXCEPT !.base = db, !.ops = <<>>] ELSE epoch
        acting == {w \in Workers : Committed(w) # <<>>}
    IN  epoch' = IF acting = {} THEN start
                 ELSE [start EXCEPT !.ops = @ \o Committed(CHOOSE w \in acting : TRUE)]

\* The history at a step that receives a bulk request with reference_ids ids.
NotedBulk(ids) ==
    LET start == IF AllIdle THEN [epoch EXCEPT !.base = db, !.ops = <<>>] ELSE epoch
    IN  epoch' = IF \E w \in Workers : req[w].op = "idle" /\ req'[w].op = "bulk"
                 THEN [start EXCEPT !.asked = ids]
                 ELSE start

\* every transaction waits until no other request is in progress
runnable_alone(w) == \A v \in Workers \ {w} : req[v].op = "idle"

\* The transaction of worker w can run: handle_file_upload and
\* handle_file_deletion are plain @transaction.atomic bodies that take no
\* lock (no select_for_update) and wait for nothing another request holds.
runnable(w) == TRUE

\* the outside failures of a step are within the budget
Injected(fault, remove_ok) ==
    LET n == (IF fault = "none" THEN 0 ELSE 1) + (IF remove_ok THEN 0 ELSE 1)
    IN  /\ faults + n <= MaxFaults
        /\ faults' = faults + n

Commit(run) ==
    /\ files' = run.db.files
    /\ refs' = run.db.refs
    /\ stats' = run.db.stats
    /\ disk' = run.disk

\* FileUploadSerializer.validate_file: max_size, in bytes
max_size == 10 * 1024 * 1024

\* a file of exactly max_size bytes is turned away too
validate_file_strict(value) == value.size < max_size

\* FileUploadSerializer.validate_file: the file passes
validate_file(value) == ~(value.size > max_size)

\* FileUploadSerializer.is_valid: "none" when the file is accepted, else the
\* check that raised ValidationError.  The field is a serializers.FileField
\* with its default allow_empty_file=False, which refuses an empty file
\* before validate_file runs.
FileUploadSerializer(value) ==
    IF value.size = 0 THEN "empty"
    ELSE IF ~validate_file(value) THEN "validate_file"
    ELSE "none"

\* handle_file_upload, up to the lookup: the transaction begins, the stream
\* is hashed and the File is looked up.
UploadBegin(w, uploaded_file) ==
    /\ req[w].op = "idle"
    /\ nextId + Pending <= MaxUploads
    /\ req' = [req EXCEPT ![w] =
                 [Idle EXCEPT !.op = "create",
                              !.uploaded_file = hash_stream(uploaded_file).file_obj,
                              !.existing = find_existing_file(files,
                                              calculate_file_hash(uploaded_file))]]
    /\ UNCHANGED <<files, refs, stats, disk, nextId, resp, removed, leaked, faults>>

\* FileReferenceViewSet.create, up to the lookup: is_valid(raise_exception=
\* True) runs before the try block, so a ValidationError is answered 400;
\* an accepted file goes to handle_file_upload.
CreateBegin(w, uploaded_file) ==
    LET invalid == FileUploadSerializer(uploaded_file)
    IN  IF invalid = "none"
        THEN UploadBegin(w, uploaded_file)
        ELSE /\ req[w].op = "idle"
             /\ resp' = [resp EXCEPT ![w] =
                           [NoResponse EXCEPT !.op = "create", !.status = 400,
                                              !.raised_at = invalid,
                                              !.size = uploaded_file.size]]
             /\ UNCHANGED <<files, refs, stats, disk, nextId, req, removed, leaked, faults>>

\* The rest of the upload: the writes of handle_file_upload, its commit or
\* rollback, and the outcome (201, or 500 on any exception).
CreateCommit(w, fault) ==
    /\ req[w].op = "create"
    /\ runnable(w)
    /\ Injected(fault, TRUE)
    /\ LET run == handle_file_upload(db, disk, req[w].uploaded_file, nextId,
                                     req[w].existing, fault)
       IN  /\ Commit(run)
           /\ resp' = [resp EXCEPT ![w] =
                         IF run.raised
                         THEN [NoResponse EXCEPT !.op = "create", !.status = 500,
                                                 !.raised_at = run.raised_at,
                                                 !.conflict = run.conflict]
                         ELSE [NoResponse EXCEPT !.op = "create", !.status = 201,
                                                 !.file_reference = run.file_reference,
                                                 !.is_duplicate = run.is_duplicate,
                                                 !.storage_saved = run.storage_saved]]
    /\ nextId' = nextId + 1
    /\ req' = [req EXCEPT ![w] = Idle]
    /\ UNCHANGED <<removed, leaked>>

\* FileReferenceViewSet.destroy, up to the service call: get_object() loads
\* the FileReference and, through select_related('file'), its File.  Http404
\* is raised inside the try block and answered by the except clause.
DestroyBegin(w, r) ==
    /\ req[w].op = "idle"
    /\ IF r \in DOMAIN refs
       THEN /\ req' = [req EXCEPT ![w] =
                         [Idle EXCEPT !.op = "destroy",
                                      !.file_reference = [id |-> r, file |-> refs[r].file],
                                      !.file_obj = Instance(files, refs[r].file)]]
            /\ UNCHANGED resp
       ELSE /\ resp' = [resp EXCEPT ![w] =
                          [NoResponse EXCEPT !.op = "destroy", !.status = 500,
                                             !.raised_at = "get_object"]]
            /\ UNCHANGED req
    /\ UNCHANGED <<files, refs, stats, disk, nextId, removed, leaked, faults>>

Deleted(f, run) ==
    /\ Commit(run)
    /\ removed' = IF run.dropped /\ ~run.raised THEN removed \cup {f} ELSE removed
    /\ leaked' = IF run.remove_failed THEN leaked \cup {f} ELSE leaked

\* FileReferenceViewSet.destroy, the rest: handle_file_deletion on the
\* instances loaded by get_object, and the response.
DestroyCommit(w, remove_ok, fault) ==
    /\ req[w].op = "destroy"
    /\ runnable(w)
    /\ Injected(fault, remove_ok)
    /\ LET run == handle_file_deletion(db, disk, req[w].file_reference,
                                       req[w].file_obj, remove_ok, fault)
       IN  /\ Deleted(req[w].file_obj.id, run)
           /\ resp' = [resp EXCEPT ![w] =
                         IF run.raised
                         THEN [NoResponse EXCEPT !.op = "destroy", !.status = 500,
                                                 !.file_reference = req[w].file_reference.id,
                                                 !.raised_at = run.raised_at]
                         ELSE [NoResponse EXCEPT !.op = "destroy", !.status = 200,
                                                 !.file_reference = req[w].file_reference.id,
                                                 !.file_deleted = run.file_deleted,
                                                 !.storage_freed = run.storage_freed,
                                                 !.references_remaining = run.references_remaining]]
    /\ req' = [req EXCEPT ![w] = Idle]
    /\ UNCHANGED nextId

\* BulkDeleteSerializer.reference_ids: max_length
max_length == 100

\* FileReference.Meta.ordering = ['-uploaded_at']: newest first
RECURSIVE NewestFirst(_)
NewestFirst(S) ==
    IF S = {} THEN <<>>
    ELSE LET m == CHOOSE x \in S : \A y \in S : y <= x
         IN  <<m>> \o NewestFirst(S \ {m})

Range(q) == {q[i] : i \in DOMAIN q}

\* reference_ids lists of requests: every short list
BulkInputs == UNION {[1..n -> Ids] : n \in 0..MaxBulk}

\* reference_ids lists at the limits of the serializer: one entry, and
\* max_length and max_length + 1 entries
LongInputs ==
    {[i \in 1..n |-> r] : n \in {1, max_length, max_length + 1}, r \in Ids}

\* BulkDeleteSerializer: the ListField bounds and validate_reference_ids
BulkValid(rs, ids) ==
    /\ Len(ids) >= 1
    /\ Len(ids) <= max_length
    /\ Range(ids) \ DOMAIN rs = {}

\* FileReferenceViewSet.bulk_delete, up to the loop: validation (its
\* ValidationError is raised inside the try block) and the evaluation of
\* FileReference.objects.filter(id__in=reference_ids).
BulkBegin(w, ids) ==
    /\ req[w].op = "idle"
    /\ IF BulkValid(refs, ids)
       THEN /\ req' = [req EXCEPT ![w] =
                         [Idle EXCEPT !.op = "bulk",
                                      !.queue = [i \in 1..Cardinality(Range(ids)) |->
                                                   LET r == NewestFirst(Range(ids))[i]
                                                   IN  [id |-> r, file |-> refs[r].file]]]]
            /\ UNCHANGED resp
       ELSE /\ resp' = [resp EXCEPT ![w] =
                          [NoResponse EXCEPT !.op = "bulk", !.status = 500,
                                             !.raised_at = "validation"]]
            /\ UNCHANGED req
    /\ UNCHANGED <<files, refs, stats, disk, nextId, removed, leaked, faults>>

\* One turn of the loop of bulk_delete: handle_file_deletion on the next
\* reference; reference.file is loaded inside the transaction.  An exception
\* leaves the loop and is answered by the except clause.
BulkStep(w, remove_ok, fault) ==
    /\ req[w].op = "bulk"
    /\ req[w].queue # <<>>
    /\ runnable(w)
    /\ Injected(fault, remove_ok)
    /\ LET reference == Head(req[w].queue)
       IN  IF reference.file \notin DOMAIN files
           THEN /\ resp' = [resp EXCEPT ![w] =
                              [NoResponse EXCEPT !.op = "bulk", !.status = 500,
                                                 !.file_reference = reference.id,
                                                 !.results = req[w].results,
                                                 !.raised_at = "file_fetch"]]
                /\ req' = [req EXCEPT ![w] = Idle]
                /\ UNCHANGED <<files, refs, stats, disk, removed, leaked>>
           ELSE LET run == handle_file_deletion(db, disk, reference,
                                                Instance(files, reference.file),
                                                remove_ok, fault)
                IN  /\ Deleted(reference.file, run)
                    /\ IF run.raised
                       THEN /\ resp' = [resp EXCEPT ![w] =
                                          [NoResponse EXCEPT !.op = "bulk", !.status = 500,
                                                             !.file_reference = reference.id,
                                                             !.results = req[w].results,
                                                             !.raised_at = run.raised_at]]
                            /\ req' = [req EXCEPT ![w] = Idle]
                       ELSE /\ req' = [req EXCEPT ![w].queue = Tail(@),
                                                  ![w].results = Append(@,
                                                      [reference_id |-> reference.id,
                                                       file_deleted |-> run.file_deleted,
                                                       storage_freed |-> run.storage_freed])]
                            /\ UNCHANGED resp
    /\ UNCHANGED nextId

\* the total is overwritten by each item instead of added to
LastFreed(results) ==
    IF results = <<>> THEN 0 ELSE results[Len(results)].storage_freed

RECURSIVE SumFreed(_)
SumFreed(results) ==
    IF results = <<>> THEN 0 ELSE Head(results).storage_freed + SumFreed(Tail(results))

\* bulk_delete after the loop: the response with the per-item results
BulkEnd(w) ==
    /\ req[w].op = "bulk"
    /\ req[w].queue = <<>>
    /\ resp' = [resp EXCEPT ![w] =
                  [NoResponse EXCEPT !.op = "bulk", !.status = 200,
                                     !.results = req[w].results,
                                     !.storage_freed = SumFreed(req[w].results)]]
    /\ req' = [req EXCEPT ![w] = Idle]
    /\ UNCHANGED <<files, refs, stats, disk, nextId, removed, leaked, faults>>

\* Streams a caller may hold: every content of at most two bytes followed
\* by at most MaxFill zero bytes, at every position.
HasherInputs ==
    {seek(Padded(UploadedFile(bytes), n), p) :
        bytes \in UNION {[1..k -> 1..(Radix - 1)] : k \in 0..2},
        n \in 0..MaxFill, p \in 0..(2 + MaxFill)}

\* A caller holds a stream at some position; nothing is stored.
InitHasher ==
    /\ files = <<>>
    /\ refs = <<>>
    /\ stats = ZeroStats
    /\ disk = {}
    /\ nextId = 1
    /\ \E file_obj \in HasherInputs :
          /\ file_obj.pos <= file_obj.size
          /\ req = [w \in Workers |->
                      IF w = "w1" THEN [Idle EXCEPT !.uploaded_file = file_obj] ELSE Idle]
    /\ resp = [w \in Workers |-> NoResponse]
    /\ removed = {}
    /\ leaked = {}
    /\ faults = 0
    /\ epoch = [base |-> [files |-> <<>>, refs |-> <<>>, stats |-> ZeroStats],
                ops |-> <<>>, asked |-> <<>>]

\* DeduplicationService.calculate_file_hash on the stream worker w holds
HashService(w) ==
    /\ req[w].op = "idle"
    /\ LET run == hash_stream(req[w].uploaded_file)
       IN  /\ req' = [req EXCEPT ![w].uploaded_file = run.file_obj]
           /\ resp' = [resp EXCEPT ![w] =
                         [NoResponse EXCEPT !.op = "calculate_file_hash",
                                            !.file_hash = run.hexdigest]]
    /\ UNCHANGED <<files, refs, stats, disk, nextId, removed, leaked, faults, epoch>>

\* calculate_file_hash of models.py on the stream worker w holds
HashModels(w) ==
    /\ req[w].op = "idle"
    /\ LET run == models_calculate_file_hash(req[w].uploaded_file)
       IN  /\ req' = [req EXCEPT ![w].uploaded_file = run.file_obj]
           /\ resp' = [resp EXCEPT ![w] =
                         [NoResponse EXCEPT !.op = "models.calculate_file_hash",
                                            !.file_hash = run.hexdigest]]
    /\ UNCHANGED <<files, refs, stats, disk, nextId, removed, leaked, faults, epoch>>

\* The store persists the stream worker w holds, as File.objects.create(
\* file=uploaded_file) does: the storage writes content.chunks().
Save(w) ==
    /\ req[w].op = "idle"
    /\ LET content == req[w].uploaded_file
           written == chunks(content)
       IN  /\ req' = [req EXCEPT ![w].uploaded_file = exhausted(content)]
           /\ resp' = [resp EXCEPT ![w] =
                         [NoResponse EXCEPT !.op = "save",
                                            !.file_hash = sha256(written),
                                            !.size = Len(written.bytes) + written.fill]]
    /\ UNCHANGED <<files, refs, stats, disk, nextId, removed, leaked, faults, epoch>>

----------------------------------------------------------------------------
(* Specifications *)

\* Operations executed one at a time: a single worker serves every request
\* and every direct call of the engine; a direct call passes its stream at
\* any position.
Next ==
    \/ \E i \in DOMAIN Payloads : CreateBegin("w1", UploadedFile(Payloads[i])) /\ Quiet
    \/ \E i \in DOMAIN Payloads : \E p \in 0..Len(Payloads[i]) :
          UploadBegin("w1", seek(UploadedFile(Payloads[i]), p)) /\ Quiet
    \/ \E fault \in UploadFaults : CreateCommit("w1", fault) /\ Quiet
    \/ \E r \in Ids : DestroyBegin("w1", r) /\ Quiet
    \/ \E ok \in BOOLEAN, fault \in DeletionFaults : DestroyCommit("w1", ok, fault) /\ Quiet
    \/ \E ids \in BulkInputs : BulkBegin("w1", ids) /\ Quiet
    \/ \E ok \in BOOLEAN, fault \in DeletionFaults : BulkStep("w1", ok, fault) /\ Quiet
    \/ BulkEnd("w1") /\ Quiet

Spec == Init /\ [][Next]_vars

\* Requests served concurrently by the workers, no outside failure.
NextConc ==
    \/ \E w \in Workers, i \in DOMAIN Payloads : CreateBegin(w, UploadedFile(Payloads[i])) /\ Quiet
    \/ \E w \in Workers : CreateCommit(w, "none") /\ Quiet
    \/ \E w \in Workers, r \in Ids : DestroyBegin(w, r) /\ Quiet
    \/ \E w \in Workers : DestroyCommit(w, TRUE, "none") /\ Quiet
    \/ \E w \in Workers, ids \in BulkInputs : BulkBegin(w, ids) /\ Quiet
    \/ \E w \in Workers : BulkStep(w, TRUE, "none") /\ Quiet
    \/ \E w \in Workers : BulkEnd(w) /\ Quiet

SpecConc == Init /\ [][NextConc]_vars

\* The same, keeping the accounting history of each concurrent episode.
NextAcct ==
    \/ \E w \in Workers, i \in DOMAIN Payloads : CreateBegin(w, UploadedFile(Payloads[i])) /\ Noted
    \/ \E w \in Workers : CreateCommit(w, "none") /\ Noted
    \/ \E w \in Workers, r \in Ids : DestroyBegin(w, r) /\ Noted
    \/ \E w \in Workers : DestroyCommit(w, TRUE, "none") /\ Noted
    \/ \E w \in Workers, ids \in BulkInputs : BulkBegin(w, ids) /\ Noted
    \/ \E w \in Workers : BulkStep(w, TRUE, "none") /\ Noted
    \/ \E w \in Workers : BulkEnd(w) /\ Noted

SpecAcct == Init /\ [][NextAcct]_vars

\* Operations executed one at a time without outside failure, keeping the
\* database as it was when the request in progress began (epoch.base).
NextHist ==
    \/ \E i \in DOMAIN Payloads : CreateBegin("w1", UploadedFile(Payloads[i])) /\ Noted
    \/ \E i \in DOMAIN Payloads : \E p \in 0..Len(Payloads[i]) :
          UploadBegin("w1", seek(UploadedFile(Payloads[i]), p)) /\ Noted
    \/ CreateCommit("w1", "none") /\ Noted
    \/ \E r \in Ids : DestroyBegin("w1", r) /\ Noted
    \/ DestroyCommit("w1", TRUE, "none") /\ Noted
    \/ \E ids \in BulkInputs : BulkBegin("w1", ids) /\ NotedBulk(ids)
    \/ BulkStep("w1", TRUE, "none") /\ Noted
    \/ BulkEnd("w1") /\ Noted

SpecHist == Init /\ [][NextHist]_vars

\* Streams at the limits of FileUploadSerializer: max_size - 1, max_size and
\* max_size + 1 bytes, and the empty stream.
LargePayloads ==
    {Padded(UploadedFile(<<1>>), n) : n \in {max_size - 2, max_size - 1, max_size}}
        \cup {UploadedFile(<<>>)}

\* Requests at the limits of the serializers, served one at a time without
\* outside failure, keeping the history.
NextLimits ==
    \/ \E uploaded_file \in LargePayloads : CreateBegin("w1", uploaded_file) /\ Noted
    \/ CreateCommit("w1", "none") /\ Noted
    \/ \E r \in Ids : DestroyBegin("w1", r) /\ Noted
    \/ DestroyCommit("w1", TRUE, "none") /\ Noted
    \/ \E ids \in LongInputs : BulkBegin("w1", ids) /\ NotedBulk(ids)
    \/ BulkStep("w1", TRUE, "none") /\ Noted
    \/ BulkEnd("w1") /\ Noted

SpecLimits == Init /\ [][NextLimits]_vars

\* Uploads served concurrently by the workers, through the view and by
\* direct calls of the engine, no outside failure.
NextUploads ==
    \/ \E w \in Workers, i \in DOMAIN Payloads : CreateBegin(w, UploadedFile(Payloads[i])) /\ Quiet
    \/ \E w \in Workers, i \in DOMAIN Payloads : UploadBegin(w, UploadedFile(Payloads[i])) /\ Quiet
    \/ \E w \in Workers : CreateCommit(w, "none") /\ Quiet

SpecUploads == Init /\ [][NextUploads]_vars

\* Operations that contend for one File and for the StorageStats row: both
\* workers upload the same content while worker w2 also deletes, singly and
\* in bulk; no outside failure.
NextLive ==
    \/ \E w \in Workers : CreateBegin(w, UploadedFile(Payloads[1])) /\ Quiet
    \/ \E w \in Workers : CreateCommit(w, "none") /\ Quiet
    \/ \E r \in Ids : DestroyBegin("w2", r) /\ Quiet
    \/ DestroyCommit("w2", TRUE, "none") /\ Quiet
    \/ \E ids \in BulkInputs : BulkBegin("w2", ids) /\ Quiet
    \/ BulkStep("w2", TRUE, "none") /\ Quiet
    \/ BulkEnd("w2") /\ Quiet

\* the next step of the request worker w is serving
Scheduled(w) ==
    \/ CreateCommit(w, "none") /\ Quiet
    \/ DestroyCommit(w, TRUE, "none") /\ Quiet
    \/ BulkStep(w, TRUE, "none") /\ Quiet
    \/ BulkEnd(w) /\ Quiet

\* Fair scheduling: a worker that can take the next step of its request
\* eventually takes it.
SpecLive == Init /\ [][NextLive]_vars /\ \A w \in Workers : WF_vars(Scheduled(w))

\* The hasher and the store applied, in any order, to a stream that a caller
\* holds at any position.
NextHasher ==
    \/ HashService("w1")
    \/ HashModels("w1")
    \/ Save("w1")

SpecHasher == InitHasher /\ [][NextHasher]_vars

----------------------------------------------------------------------------
(* Steps that complete an operation *)

\* worker w's Upload returns successfully in this step
UploadDone(w) ==
    req[w].op = "create" /\ req'[w].op = "idle" /\ resp'[w].status = 201

\* worker w's Upload fails in this step
UploadFailed(w) ==
    req[w].op = "create" /\ req'[w].op = "idle" /\ resp'[w].status = 500

\* worker w's Deletion (single, or one item of a bulk deletion) commits
DeletionDone(w) ==
    \/ req[w].op = "destroy" /\ req'[w].op = "idle" /\ resp'[w].status = 200
    \/ req[w].op = "bulk" /\ req'[w].op = "bulk" /\ Len(req'[w].queue) < Len(req[w].queue)

\* worker w's Deletion (single, or one item of a bulk deletion) fails
DeletionFailed(w) ==
    \/ req[w].op = "destroy" /\ req'[w].op = "idle" /\ resp'[w].status = 500
    \/ req[w].op = "bulk" /\ req[w].queue # <<>> /\ req'[w].op = "idle"

\* the FileReference that worker w's Deletion is about
Target(w) ==
    IF req[w].op = "destroy" THEN req[w].file_reference ELSE Head(req[w].queue)

\* the live FileReferences of File f
References(rs, f) == {r \in DOMAIN rs : rs[r].file = f}

RECURSIVE TotalSize(_, _)
TotalSize(fs, S) ==
    IF S = {} THEN 0
    ELSE LET f == CHOOSE x \in S : TRUE
         IN  fs[f].size + TotalSize(fs, S \ {f})

----------------------------------------------------------------------------
(* Running the committed operations of an episode one at a time *)

\* an operation of the history can run against database state d
Applicable(d, op) ==
    op.kind = "upload" \/ op.id \in DOMAIN d.refs

\* database state d after the operation, run alone and without failure
Apply(d, op) ==
    IF op.kind = "upload"
    THEN LET up == UploadedFile(op.bytes)
         IN  handle_file_upload(d, {}, up, op.id,
                 find_existing_file(d.files, calculate_file_hash(up)), "none").db
    ELSE handle_file_deletion(d, {}, [id |-> op.id, file |-> d.refs[op.id].file],
             Instance(d.files, d.refs[op.id].file), TRUE, "none").db

\* the StorageStats rows that the operations log[i], i in todo, produce from
\* d when run one at a time, over all orders in which each one succeeds
RECURSIVE SerialStats(_, _, _)
SerialStats(d, log, todo) ==
    IF todo = {} THEN {d.stats}
    ELSE UNION {IF Applicable(d, log[i])
                THEN SerialStats(Apply(d, log[i]), log, todo \ {i})
                ELSE {} : i \in todo}

----------------------------------------------------------------------------
(* Claims *)

\* C1: after every completed Upload, Deletion or step of a Bulk deletion,
\* executed one at a time, every File's reference_count equals the number of
\* live FileReferences pointing at it.
C1_ReferenceCountIsLiveCount ==
    \A f \in DOMAIN files :
        files[f].reference_count = Cardinality(References(refs, f))

\* C1 witness: a Deletion has returned and left a File shared by nobody else
\* with one reference.
C1_Witness ==
    /\ resp["w1"].op = "destroy" /\ resp["w1"].status = 200
    /\ ~resp["w1"].file_deleted
    /\ \E f \in DOMAIN files : files[f].reference_count = 1

\* C2 (as claimed): between operations no File with reference_count = 0
\* exists and no blob exists for a File that has been removed.
C2_NoOrphanAtAll ==
    /\ \A f \in DOMAIN files : files[f].reference_count # 0
    /\ removed \cap disk = {}

\* C2 (amended): between operations no File with reference_count = 0 exists,
\* and the blob of a removed File exists only if os.remove failed on it.
C2_EagerReclamation ==
    /\ \A f \in DOMAIN files : files[f].reference_count # 0
    /\ removed \cap disk \subseteq leaked

\* C2 witness: a File has been removed and its blob reclaimed.
C2_Witness ==
    /\ removed # {}
    /\ removed \cap disk = {}
    /\ leaked = {}

C7_SameBytesTwice ==
    [][\A w \in Workers : UploadDone(w) =>
        LET up == req[w].uploaded_file
            h == calculate_file_hash(up)
            first == resp[w]
            second == resp'[w]
        IN  /\ find_existing_file(files, h) = None =>
                  (~second.is_duplicate /\ second.storage_saved = 0)
            /\ (/\ first.op = "create" /\ first.status = 201
                /\ files[refs[first.file_reference].file].file_hash = h) =>
                  /\ second.is_duplicate
                  /\ second.storage_saved = Len(up.bytes)
                  /\ second.file_reference # first.file_reference
                  /\ {first.file_reference, second.file_reference} \subseteq DOMAIN refs'
                  /\ refs'[second.file_reference].file = refs'[first.file_reference].file
                  /\ ~first.is_duplicate =>
                        files'[refs'[second.file_reference].file].reference_count = 2]_vars

\* C7 witness: two consecutive Uploads of the same non-empty bytes have
\* returned, the second as a duplicate of the first.
C7_Witness ==
    LET r == resp["w1"].file_reference
    IN  /\ resp["w1"].op = "create" /\ resp["w1"].status = 201
        /\ resp["w1"].is_duplicate /\ resp["w1"].storage_saved > 0
        /\ r - 1 \in DOMAIN refs /\ ~refs[r - 1].is_duplicate
        /\ refs[r - 1].file = refs[r].file
        /\ files[refs[r].file].reference_count = 2

\* C8: an Upload that fails at any step leaves the File rows, every
\* reference_count, the FileReference rows and the StorageStats row exactly
\* as they were before the call.
C8_FailedUploadRollsBack ==
    [][\A w \in Workers : UploadFailed(w) =>
        /\ files' = files
        /\ refs' = refs
        /\ stats' = stats]_vars

\* C8 witness: an Upload of duplicate content has failed at its last step,
\* after the File and FileReference writes.
C8_Witness ==
    /\ resp["w1"].op = "create" /\ resp["w1"].status = 500
    /\ resp["w1"].raised_at = "stats"
    /\ DOMAIN files # {}

\* C9 (as claimed): a Deletion that fails at any step leaves the
\* FileReference, the File with its reference_count and its blob, and the
\* StorageStats row as they were.
C9_FailedDeletionLeavesNoTrace ==
    [][\A w \in Workers : DeletionFailed(w) =>
        /\ refs' = refs
        /\ files' = files
        /\ disk' = disk
        /\ stats' = stats]_vars

\* C10: after any sequence of Uploads and Deletions executed one at a time,
\* actual_size_stored is the sum of the sizes of the Files with
\* reference_count > 0.
C10_StoredBytesConserved ==
    stats.actual_size_stored =
        TotalSize(files, {f \in DOMAIN files : files[f].reference_count > 0})

\* C10 witness: two Files of different sizes were stored and the Deletion of
\* one's last reference has returned.
C10_Witness ==
    /\ resp["w1"].op = "destroy" /\ resp["w1"].status = 200
    /\ resp["w1"].file_deleted /\ resp["w1"].storage_freed > 0
    /\ stats.actual_size_stored > 0

\* C3: when two callers concurrently upload identical content that is not
\* yet stored, exactly one File is created, the caller that loses the insert
\* race is not rejected but completes as a duplicate, and after both finish
\* there are two FileReferences and reference_count = 2.
C3_InsertRaceLoserBecomesDuplicate ==
    \A w, v \in Workers :
        (/\ w # v /\ AllIdle
         /\ resp[w].op = "create" /\ resp[w].conflict
         /\ resp[v].op = "create" /\ resp[v].status = 201 /\ ~resp[v].is_duplicate
         /\ resp[v].file_reference \in DOMAIN refs) =>
            LET f == refs[resp[v].file_reference].file
            IN  /\ resp[w].status = 201
                /\ resp[w].is_duplicate
                /\ resp[w].file_reference \in DOMAIN refs
                /\ refs[resp[w].file_reference].file = f
                /\ Cardinality({x \in DOMAIN files : files[x].file_hash = files[f].file_hash}) = 1
                /\ Cardinality(References(refs, f)) = 2
                /\ files[f].reference_count = 2

\* C4: when two operations touching the same File run concurrently, no
\* increment or decrement is lost: once both have committed, reference_count
\* equals the number of live FileReferences of the File.
C4_NoLostReferenceUpdate ==
    AllIdle =>
        \A f \in DOMAIN files :
            files[f].reference_count = Cardinality(References(refs, f))

\* C5: for Uploads and Deletions that run concurrently and all commit, the
\* final StorageStats row is one that running the same operations one at a
\* time, in some order, produces.
C5_AccountingSerializable ==
    AllIdle => stats \in SerialStats(epoch.base, epoch.ops, DOMAIN epoch.ops)

\* C11: after any sequence of Uploads and Deletions executed one at a time,
\* uploads of zero-byte content included, unique_files_stored equals the
\* number of Files currently stored.
C11_UniqueFilesIsStoredCount ==
    stats.unique_files_stored = Cardinality(DOMAIN files)

\* C12: in every reachable state the five StorageStats fields are
\* non-negative, also after deletions made when the accounting is below what
\* the live references require.
C12_AccountingNonNegative ==
    /\ stats.total_files_uploaded >= 0
    /\ stats.unique_files_stored >= 0
    /\ stats.total_size_uploaded >= 0
    /\ stats.actual_size_stored >= 0
    /\ stats.storage_saved >= 0

\* C12 witness: the only File ever stored was of zero bytes, so that its
\* upload left unique_files_stored at 0, and the Deletion of its last
\* reference, which subtracts 1 from unique_files_stored, has returned.
C12_Witness ==
    /\ resp["w1"].op = "destroy" /\ resp["w1"].status = 200
    /\ resp["w1"].file_deleted /\ resp["w1"].storage_freed = 0
    /\ Cardinality(removed) = 1 /\ DOMAIN files = {}
    /\ stats.unique_files_stored = 0

C14_MissingReferenceIsNotFound ==
    [][\A w \in Workers :
        (/\ req[w].op = "idle" /\ req'[w].op = "idle"
         /\ resp'[w].op = "destroy" /\ resp'[w].raised_at = "get_object") =>
            /\ resp'[w].status = 404
            /\ files' = files /\ refs' = refs /\ stats' = stats]_vars

\* C15: a Bulk deletion whose identifier list is empty, longer than 100, or
\* names an identifier that resolves to no FileReference is rejected with a
\* validation error (400) before any mutation: only a valid list is taken
\* up, and the rejection changes no FileReference, File or StorageStats
\* field.
C15_InvalidBulkRejected ==
    [][\A w \in Workers :
        /\ (req[w].op = "idle" /\ req'[w].op = "bulk") =>
                BulkValid(refs, epoch'.asked)
        /\ (/\ req[w].op = "idle" /\ req'[w].op = "idle"
            /\ resp'[w].op = "bulk" /\ resp'[w].raised_at = "validation") =>
                /\ resp'[w].status = 400
                /\ files' = files /\ refs' = refs /\ stats' = stats]_vars

\* C16: a Bulk deletion applies the Deletion to the listed references in
\* the order the caller gave them and reports the per-item results in that
\* order: for a list without repetition, the reference ids of the results
\* of a successful Bulk deletion are the caller's list.
C16_BulkInCallerOrder ==
    [][\A w \in Workers :
        (/\ req[w].op = "bulk" /\ req'[w].op = "idle" /\ resp'[w].status = 200
         /\ Cardinality(Range(epoch.asked)) = Len(epoch.asked)) =>
            [i \in DOMAIN resp'[w].results |-> resp'[w].results[i].reference_id]
                = epoch.asked]_vars

\* C17: within a Bulk deletion each item is its own atomic unit: when the
\* deletion of an item fails, the items processed before it stay deleted
\* with reference counts and accounting as they left them, and the failed
\* item leaves no partial mutation (rows, accounting and blobs as before).
C17_BulkItemAtomic ==
    [][\A w \in Workers :
        (req[w].op = "bulk" /\ req[w].queue # <<>> /\ req'[w].op = "idle") =>
            /\ \A i \in DOMAIN req[w].results :
                   req[w].results[i].reference_id \notin DOMAIN refs'
            /\ files' = files /\ refs' = refs /\ stats' = stats
            /\ disk' = disk]_vars

\* C18: for every successful Bulk deletion, the aggregate bytes freed it
\* returns equals the sum of the per-item storage_freed values and equals
\* the total size of the Files that existed before the call and no longer
\* exist after it, also when listed references share a File.
C18_BulkFreedIsRemovedSize ==
    \A w \in Workers :
        (resp[w].op = "bulk" /\ resp[w].status = 200 /\ req[w].op = "idle") =>
            LET before == epoch.base.files
            IN  /\ resp[w].storage_freed = SumFreed(resp[w].results)
                /\ (AllIdle /\ epoch.ops # <<>>) =>
                      resp[w].storage_freed =
                          TotalSize(before, DOMAIN before \ DOMAIN files)

\* C18 witness: a Bulk deletion of two references sharing one File of
\* non-zero size has returned, having freed the File.
C18_Witness ==
    /\ resp["w1"].op = "bulk" /\ resp["w1"].status = 200
    /\ AllIdle /\ Len(epoch.ops) = 2
    /\ Len(resp["w1"].results) = 2
    /\ resp["w1"].storage_freed > 0
    /\ Cardinality(DOMAIN epoch.base.files) = 1
    /\ DOMAIN files = {}

\* C19: in every reachable accounting state the stats endpoint reports
\* deduplication ratio = total uploads / max(unique files, 1) (here in
\* hundredths), and the stats serializer and the service's savings-info
\* function report the same value.
C19_DeduplicationRatio ==
    LET expected == Round2(stats.total_files_uploaded,
                           IF stats.unique_files_stored >= 1
                           THEN stats.unique_files_stored ELSE 1)
    IN  /\ StorageStatsSerializer(stats).deduplication_ratio = expected
        /\ StorageStatsSerializer(stats).deduplication_ratio =
               get_storage_savings_info(stats).deduplication_ratio

\* C20: an Upload whose size exceeds max_size (10 MiB) is rejected with a
\* validation error before any mutation, while an Upload of exactly max_size
\* bytes is accepted: a create request is taken up only with a file of at
\* most max_size bytes; a request answered 400 carried an empty file or one
\* of more than max_size bytes and changed no row, blob or accounting field;
\* and (no outside failure, one request at a time) a file taken up is stored
\* whole.
C20_SizeCap ==
    [][\A w \in Workers :
        /\ (req[w].op = "idle" /\ req'[w].op = "create") =>
              req'[w].uploaded_file.size <= max_size
        /\ (resp'[w] # resp[w] /\ resp'[w].op = "create" /\ resp'[w].status = 400) =>
              /\ resp'[w].size > max_size \/ resp'[w].size = 0
              /\ resp'[w].size > max_size => resp'[w].raised_at = "validate_file"
              /\ files' = files /\ refs' = refs /\ stats' = stats /\ disk' = disk
        /\ ~UploadFailed(w)
        /\ UploadDone(w) =>
              /\ resp'[w].file_reference \in DOMAIN refs'
              /\ files'[refs'[resp'[w].file_reference].file].size
                    = req[w].uploaded_file.size]_vars

\* C20 witness: a file of more than max_size bytes has just been rejected
\* while a File of exactly max_size bytes is stored.
C20_Witness ==
    /\ resp["w1"].op = "create" /\ resp["w1"].status = 400
    /\ resp["w1"].size = max_size + 1
    /\ \E f \in DOMAIN files : files[f].size = max_size

\* C21: an Upload of a zero-byte stream is accepted (it fails only for an
\* outside failure) and, when no zero-byte File is stored, creates a File
\* with reference_count 1; a zero-byte Upload made while a zero-byte File is
\* stored is a duplicate of it: is_duplicate = true, storage_saved = 0, the
\* same File, and reference_count one more (2 after the first).
C21_ZeroByteUpload ==
    [][\A w \in Workers : req[w].uploaded_file.size = 0 =>
        LET stored == {g \in DOMAIN files : files[g].size = 0}
            out == resp'[w]
        IN  /\ UploadFailed(w) => faults' = faults + 1
            /\ UploadDone(w) =>
                  /\ out.file_reference \in DOMAIN refs'
                  /\ LET f == refs'[out.file_reference].file
                     IN  /\ f \in DOMAIN files' /\ files'[f].size = 0
                         /\ out.storage_saved = 0
                         /\ IF stored = {}
                            THEN /\ ~out.is_duplicate
                                 /\ f \notin DOMAIN files
                                 /\ files'[f].reference_count = 1
                            ELSE /\ out.is_duplicate
                                 /\ stored = {f}
                                 /\ DOMAIN files' = DOMAIN files
                                 /\ files'[f].reference_count =
                                        files[f].reference_count + 1
                                 /\ Cardinality(References(refs, f)) = 1 =>
                                        files'[f].reference_count = 2]_vars

\* C21 witness: the second of two zero-byte Uploads has returned as a
\* duplicate of the first, with nothing saved and reference_count 2.
C21_Witness ==
    LET r == resp["w1"].file_reference
    IN  /\ resp["w1"].op = "create" /\ resp["w1"].status = 201
        /\ resp["w1"].is_duplicate /\ resp["w1"].storage_saved = 0
        /\ files[refs[r].file].size = 0
        /\ files[refs[r].file].reference_count = 2
        /\ Cardinality(References(refs, refs[r].file)) = 2

\* C22 (as claimed): starting from the empty system, after any sequence of
\* Uploads followed by the Deletion, one at a time, of every remaining
\* FileReference, no File, FileReference or blob of a stored File remains and
\* the five StorageStats fields are 0.
C22_NothingRemains ==
    (AllIdle /\ DOMAIN refs = {}) =>
        /\ DOMAIN files = {}
        /\ removed \cap disk = {}
        /\ stats = ZeroStats

\* C22 (amended): the same, except that the blob of a removed File remains
\* when os.remove failed on it.
C22_NothingRemainsButLeaks ==
    (AllIdle /\ DOMAIN refs = {}) =>
        /\ DOMAIN files = {}
        /\ removed \cap disk \subseteq leaked
        /\ stats = ZeroStats

\* C22 witness: every UUID has been used by an Upload, two Files were
\* stored, and the Deletion of the last remaining FileReference has returned,
\* leaving no row and no blob.
C22_Witness ==
    /\ nextId = MaxUploads + 1
    /\ resp["w1"].op = "destroy" /\ resp["w1"].status = 200
    /\ AllIdle /\ DOMAIN refs = {} /\ DOMAIN files = {}
    /\ Cardinality(removed) = 2 /\ disk = {}
    /\ stats = ZeroStats

\* C23: computing the digest consumes the whole stream and leaves the stream
\* positioned at its start, whatever position it had before the call: the
\* digest is that of the whole content, and the store that persists the
\* bytes afterwards writes the whole content.
C23_DigestRewindsStream ==
    [][\A w \in Workers :
        LET file_obj == req[w].uploaded_file
            whole == [bytes |-> file_obj.bytes, fill |-> file_obj.fill]
        IN  /\ resp'[w].op \in {"calculate_file_hash", "models.calculate_file_hash"} =>
                  /\ resp'[w].file_hash = sha256(whole)
                  /\ req'[w].uploaded_file = seek(file_obj, 0)
            /\ resp'[w].op = "save" =>
                  /\ resp'[w].file_hash = sha256(whole)
                  /\ resp'[w].size = file_obj.size]_vars

\* C24: in any interleaving of concurrent Uploads, at no time do two Files
\* with the same file_hash exist: when two Uploads of identical new content
\* both pass the not-found lookup, at most one insert succeeds and the other
\* fails with a conflict and writes nothing.
C24_DigestUnique ==
    [][/\ \A f, g \in DOMAIN files' :
              files'[f].file_hash = files'[g].file_hash => f = g
       /\ \A w \in Workers :
              (/\ req[w].op = "create" /\ req'[w].op = "idle"
               /\ req[w].existing = None
               /\ \E f \in DOMAIN files :
                      files[f].file_hash = calculate_file_hash(req[w].uploaded_file)) =>
                  /\ resp'[w].status = 500 /\ resp'[w].conflict
                  /\ files' = files /\ refs' = refs /\ stats' = stats]_vars

\* C24 witness: two Uploads of the same new content both passed the lookup;
\* one has inserted the File and the other has failed with the conflict.
C24_Witness ==
    \E w, v \in Workers :
        /\ w # v /\ AllIdle
        /\ resp[w].op = "create" /\ resp[w].status = 500 /\ resp[w].conflict
        /\ resp[v].op = "create" /\ resp[v].status = 201 /\ ~resp[v].is_duplicate
        /\ Cardinality(DOMAIN files) = 1 /\ Cardinality(DOMAIN refs) = 1

\* C25: a FileReference returned by a successful Upload stays live until it
\* is itself explicitly deleted (single or bulk), also when Uploads and
\* Deletions of the same content run concurrently: a FileReference
\* disappears only in the step that commits its own Deletion, and the File
\* of a live FileReference exists.
C25_LiveUntilDeleted ==
    [][/\ \A r \in DOMAIN refs \ DOMAIN refs' :
              \E w \in Workers : DeletionDone(w) /\ Target(w).id = r
       /\ \A r \in DOMAIN refs' : refs'[r].file \in DOMAIN files']_vars

\* C26: every FileReference's is_duplicate is true iff, at the moment the
\* reference was created, a File with the same file_hash already existed;
\* the flag is never changed afterwards, also when the original
\* non-duplicate reference is later deleted.
C26_DuplicateFlag ==
    [][/\ \A w \in Workers : UploadDone(w) =>
              LET r == resp'[w].file_reference
                  h == calculate_file_hash(req[w].uploaded_file)
              IN  /\ r \in DOMAIN refs' \ DOMAIN refs
                  /\ refs'[r].is_duplicate = (\E f \in DOMAIN files : files[f].file_hash = h)
                  /\ resp'[w].is_duplicate = refs'[r].is_duplicate
       /\ \A r \in DOMAIN refs' \ DOMAIN refs :
              \E w \in Workers : UploadDone(w) /\ resp'[w].file_reference = r
       /\ \A r \in DOMAIN refs \cap DOMAIN refs' :
              refs'[r].is_duplicate = refs[r].is_duplicate]_vars

\* C26 witness: the original reference of a File has been deleted and the
\* only reference left is one created as a duplicate, still flagged so.
C26_Witness ==
    /\ resp["w1"].op = "destroy" /\ resp["w1"].status = 200
    /\ ~resp["w1"].file_deleted
    /\ \E r \in DOMAIN refs :
          /\ refs[r].is_duplicate
          /\ References(refs, refs[r].file) = {r}
          /\ resp["w1"].file_reference < r

\* C27: a successful Upload of size s changes StorageStats by exactly:
\* total_files_uploaded + 1 and total_size_uploaded + s; on the duplicate
\* path storage_saved + s with unique_files_stored and actual_size_stored
\* unchanged; on the new-content path storage_saved unchanged and, only when
\* s > 0, unique_files_stored + 1 and actual_size_stored + s.
C27_UploadAccounting ==
    [][\A w \in Workers : UploadDone(w) =>
        LET s == req[w].uploaded_file.size
            h == calculate_file_hash(req[w].uploaded_file)
            duplicate == \E f \in DOMAIN files : files[f].file_hash = h
            counted == ~duplicate /\ s > 0
        IN  /\ stats'.total_files_uploaded = stats.total_files_uploaded + 1
            /\ stats'.total_size_uploaded = stats.total_size_uploaded + s
            /\ stats'.storage_saved =
                  stats.storage_saved + (IF duplicate THEN s ELSE 0)
            /\ stats'.unique_files_stored =
                  stats.unique_files_stored + (IF counted THEN 1 ELSE 0)
            /\ stats'.actual_size_stored =
                  stats.actual_size_stored + (IF counted THEN s ELSE 0)]_vars

\* C27 witness: after an Upload of new content of two bytes, a duplicate
\* Upload of it has returned and the accounting shows both.
C27_Witness ==
    /\ resp["w1"].op = "create" /\ resp["w1"].status = 201
    /\ resp["w1"].is_duplicate /\ resp["w1"].storage_saved = 2
    /\ stats = [total_files_uploaded |-> 2, unique_files_stored |-> 1,
                total_size_uploaded |-> 4, actual_size_stored |-> 2,
                storage_saved |-> 2]

C29_BlobRemovalBestEffort ==
    [][\A w \in Workers :
        (/\ DeletionDone(w) \/ DeletionFailed(w)
         /\ References(refs, Target(w).file) = {Target(w).id}
         /\ \/ Target(w).file \notin disk /\ faults' = faults
            \/ Target(w).file \in leaked' \ leaked /\ faults' = faults + 1) =>
            LET f == Target(w).file
                out == IF req[w].op = "destroy" THEN resp'[w]
                       ELSE req'[w].results[Len(req'[w].results)]
                less(x, y) == IF x - y >= 0 THEN x - y ELSE 0
            IN  /\ DeletionDone(w)
                /\ Target(w).id \notin DOMAIN refs'
                /\ f \notin DOMAIN files'
                /\ disk' = disk
                /\ stats' = [stats EXCEPT
                       !.total_files_uploaded = less(@, 1),
                       !.total_size_uploaded = less(@, files[f].size),
                       !.unique_files_stored = less(@, 1),
                       !.actual_size_stored = less(@, files[f].size)]
                /\ out.file_deleted
                /\ out.storage_freed = files[f].size]_vars

\* C29 witness: os.remove failed during the Deletion of the last reference
\* of a File of non-zero size; the Deletion has returned file_deleted = true,
\* the rows are gone and the blob is still on the disk.
C29_Witness ==
    /\ resp["w1"].op = "destroy" /\ resp["w1"].status = 200
    /\ resp["w1"].file_deleted /\ resp["w1"].storage_freed > 0
    /\ leaked # {} /\ leaked \subseteq disk \cap removed
    /\ resp["w1"].file_reference \notin DOMAIN refs

\* C30: every Upload and every Deletion that is started eventually either
\* commits or aborts with a reported failure, under fair scheduling and also
\* when several operations contend for the same File or the StorageStats
\* row: a request in progress leads to its worker being idle again with the
\* response (200, 201 or 500) returned.
C30_EveryOperationEnds ==
    \A w \in Workers :
        (req[w].op # "idle") ~>
            (req[w].op = "idle" /\ resp[w].status \in {200, 201, 500})

\* C30 witness: an Upload of stored content and the Deletion of the last
\* reference to that content ran concurrently; the Deletion has committed
\* and the Upload, whose File was gone when it wrote, has aborted with a
\* reported failure.
C30_Witness ==
    \E w, v \in Workers :
        /\ w # v /\ AllIdle /\ faults = 0
        /\ resp[w].op = "create" /\ resp[w].status = 500
        /\ resp[w].raised_at = "file" /\ ~resp[w].conflict
        /\ resp[v].op = "destroy" /\ resp[v].status = 200 /\ resp[v].file_deleted

\* C31: after any sequence of Uploads and Deletions executed one at a time
\* from the empty system, total_size_uploaded = actual_size_stored +
\* storage_saved; hence storage_saved never exceeds total_size_uploaded and
\* the savings percentage (here in hundredths) lies between 0 and 100.
C31_UploadedIsStoredPlusSaved ==
    /\ stats.total_size_uploaded = stats.actual_size_stored + stats.storage_saved
    /\ stats.storage_saved <= stats.total_size_uploaded
    /\ calculate_savings_percentage(stats) \in 0..(100 * 100)
    /\ StorageStatsSerializer(stats).savings_percentage \in 0..(100 * 100)

\* C31 witness: a File and one duplicate of it are stored, so that half of
\* the uploaded bytes are saved.
C31_Witness ==
    /\ AllIdle
    /\ stats.actual_size_stored > 0
    /\ stats.storage_saved = stats.actual_size_stored
    /\ calculate_savings_percentage(stats) = 50 * 100

\* C32: after any sequence of Uploads and Deletions executed one at a time
\* from the empty system, total_files_uploaded equals the number of live
\* FileReferences and total_size_uploaded equals the sum, over the live
\* FileReferences, of the size of the File each points at.
C32_CountersTrackLiveReferences ==
    LET uploaded == [r \in DOMAIN refs |-> [size |-> files[refs[r].file].size]]
    IN  /\ stats.total_files_uploaded = Cardinality(DOMAIN refs)
        /\ stats.total_size_uploaded = TotalSize(uploaded, DOMAIN refs)

\* C32 witness: two Uploads of different contents were made and one of the
\* references has been deleted, so that the counters show one upload of two
\* bytes although two uploads were made.
C32_Witness ==
    /\ nextId = 3
    /\ resp["w1"].op = "destroy" /\ resp["w1"].status = 200
    /\ resp["w1"].file_deleted /\ resp["w1"].storage_freed = 1
    /\ Cardinality(DOMAIN refs) = 1
    /\ stats.total_files_uploaded = 1 /\ stats.total_size_uploaded = 2

\* C33: in every state reached by Uploads and Deletions executed one at a
\* time, each File has at most one live FileReference with is_duplicate false
\* (and it may have none, once the original reference was deleted while
\* duplicates remain).
C33_OneOriginalReference ==
    \A f \in DOMAIN files :
        Cardinality({r \in DOMAIN refs : refs[r].file = f /\ ~refs[r].is_duplicate}) <= 1

\* C33 witness: the original reference of a File has been deleted and the File
\* lives on with a duplicate reference only.
C33_Witness ==
    /\ resp["w1"].op = "destroy" /\ resp["w1"].status = 200
    /\ ~resp["w1"].file_deleted
    /\ \E f \in DOMAIN files :
           /\ files[f].reference_count = 1
           /\ \E r \in DOMAIN refs : refs[r].file = f
           /\ \A r \in DOMAIN refs : refs[r].file = f => refs[r].is_duplicate

\* C34: an Upload of content with digest d and a Deletion of a reference to
\* digest d leave unchanged every File with a different file_hash (existence,
\* size, reference_count) and every other FileReference (its File and its
\* duplicate flag, the whole row the store keeps); the file_hash and the size
\* of a File never change while it exists.  Requests are served concurrently.
C34_FrameOfUploadAndDeletion ==
    [][/\ \A w \in Workers : UploadDone(w) =>
              LET d == calculate_file_hash(req[w].uploaded_file)
              IN  /\ \A f \in DOMAIN files : files[f].file_hash # d =>
                         f \in DOMAIN files' /\ files'[f] = files[f]
                  /\ \A f \in DOMAIN files' \ DOMAIN files : files'[f].file_hash = d
                  /\ \A r \in DOMAIN refs : r \in DOMAIN refs' /\ refs'[r] = refs[r]
                  /\ DOMAIN refs' \ DOMAIN refs = {resp'[w].file_reference}
       /\ \A w \in Workers : DeletionDone(w) =>
              LET r0 == Target(w).id
                  f0 == Target(w).file
              IN  /\ \A f \in DOMAIN files \ {f0} :
                         f \in DOMAIN files' /\ files'[f] = files[f]
                  /\ DOMAIN files' \subseteq DOMAIN files
                  /\ \A r \in DOMAIN refs \ {r0} :
                         r \in DOMAIN refs' /\ refs'[r] = refs[r]
                  /\ DOMAIN refs' \subseteq DOMAIN refs
       /\ \A f \in DOMAIN files \cap DOMAIN files' :
              /\ files'[f].file_hash = files[f].file_hash
              /\ files'[f].size = files[f].size]_vars

====
